---- MODULE Spec2Model ----
(***************************************************************************)
(* State-machine model of InfluxDBClient (src/modules/client.py): the      *)
(* request dispatcher with its retry loop, and the write / query           *)
(* operations built on it.  Every operation is a Twisted inlineCallbacks   *)
(* generator; a call is suspended at each `yield` and resumed by the       *)
(* reactor, so several calls on one client interleave at those points.     *)
(***************************************************************************)
EXTENDS Integers, Sequences, FiniteSets, TLC

(* ---------------------------- bounds ----------------------------------- *)
\* number of calls issued on the one client instance
NumCalls == 2
\* largest `retries` value a configuration carries
MaxRetries == 3
\* largest number of entries in the `results` array of a query response
MaxResults == 2

Calls == 1..NumCalls

(* ------------------------- input domains ------------------------------- *)
\* config["retries"]: the key may be missing, else it holds an integer
RetriesConfig ==
    {[present |-> FALSE, n |-> 0]}
      \cup {[present |-> TRUE, n |-> k] : k \in -1..MaxRetries}
\* config["database"]: "None" when the key is missing
DatabaseConfig == {"None", "statementStorageDB"}
\* the part of the config dict the model reads
Configs ==
    {[retries |-> r, database |-> d] : r \in RetriesConfig, d \in DatabaseConfig}
\* status codes the server answers with
StatusCodes == {200, 204, 404, 500, 503}
\* values a caller passes as expected_response_code
ExpectedCodes == {200, 204, 500}
\* values a caller passes as time_precision ('x' is not a valid precision)
TimePrecisions == {"None", "s", "ms", "x"}
\* values a caller passes as batch_size (0 stands for None / not positive)
BatchSizes == {0, 1}
\* values a caller passes as database ("" is the empty string)
Databases == {"None", "", "mydb"}
\* values a caller passes as retention_policy
RetentionPolicies == {"None", "rp1"}

JSON == "application/json"
OCTET == "application/octet-stream"

None == [t |-> "None"]
True == [t |-> "True"]
Response(code, n) == [t |-> "Response", code |-> code, attempt |-> n]
\* a decoded JSON body: the `results` key may be absent
Data(hasResults, results) ==
    [t |-> "Data", hasResults |-> hasResults, results |-> results]
ResultSets(sets) == [t |-> "ResultSets", sets |-> sets]

Pending == [kind |-> "pending", exc |-> "", value |-> None]
Return(v) == [kind |-> "return", exc |-> "", value |-> v]
Raise(e) == [kind |-> "raise", exc |-> e, value |-> None]

\* a key that a params dict does not hold
Absent == "absent"
\* params = {} (line 106)
NoParams == [db |-> Absent, precision |-> Absent, rp |-> Absent, q |-> Absent]

\* the arguments of a call and, from url on, what it hands to request
NoArgs == [expected |-> 0, time_precision |-> "None", batch_size |-> 0,
           raise_errors |-> FALSE, database |-> "None",
           retention_policy |-> "None", statement |-> "",
           url |-> "", method |-> "GET", params |-> NoParams]

VARIABLES
    config,     \* the config dict given to __init__
    _retries,   \* self._retries
    _headers,   \* self._headers['Content-type']
    use_udp,    \* self.use_udp
    op,         \* op[c]: the public method call c invoked ("idle" before)
    args,       \* args[c]: the arguments of call c
    pc,         \* pc[c]: the yield at which call c is suspended
    response,   \* response[c]: the local `response` of request
    attempts,   \* attempts[c]: the treq.request calls made by call c
    outcome,    \* outcome[c]: what the Deferred handed to the caller fired with
    cancelled   \* cancelled[c]: the caller cancelled the Deferred of call c

vars == <<config, _retries, _headers, use_udp, op, args, pc, response, attempts,
          outcome, cancelled>>

(* ---------------------------- __init__ --------------------------------- *)
\* InitRetries without the floor of lines 44-45
InitRetriesNoFloor(cfg) ==
    IF cfg.present THEN cfg.n ELSE 3

\* self._retries after construction
InitRetries(cfg) ==
    LET r == IF cfg.present THEN cfg.n ELSE 3
    IN  IF r < 1 THEN 1 ELSE r

\* self._database
_database == config.database

Init ==
    /\ config \in Configs
    /\ _retries = InitRetries(config.retries)
    /\ _headers = JSON
    /\ use_udp \in BOOLEAN
    /\ op = [c \in Calls |-> "idle"]
    /\ args = [c \in Calls |-> NoArgs]
    /\ pc = [c \in Calls |-> "idle"]
    /\ response = [c \in Calls |-> None]
    /\ attempts = [c \in Calls |-> << >>]
    /\ outcome = [c \in Calls |-> Pending]
    /\ cancelled = [c \in Calls |-> FALSE]

(* ------------------------ response bodies ------------------------------ *)
\* one entry of the `results` array: a statement result with or without
\* an `error` field
ResultEntries == {"series", "error"}

SeqsUpTo(S, n) == UNION {[1..k -> S] : k \in 0..n}

\* what response.json() can produce for a query response: a decode failure
\* or a JSON object whose `results` key is present or absent
QueryBodies ==
    {[t |-> "undecodable"]}
      \cup {Data(FALSE, << >>)}
      \cup {Data(TRUE, rs) : rs \in SeqsUpTo(ResultEntries, MaxResults)}

(* ------------------------- ResultSet ----------------------------------- *)
\* ResultSet(result, raise_errors): raises when the entry has an error and
\* raise_errors is true, else keeps the error on the ResultSet
ResultSetRaises(entry, raise_errors) == entry = "error" /\ raise_errors

ResultSet(entry) == [error |-> (entry = "error")]

(* ------------------- continuation of the callers ----------------------- *)
Cont(p, o) == [pc |-> p, outcome |-> o]

\* data.get('results', [])
GetResults(data) == IF data.hasResults THEN data.results ELSE << >>

\* ParsedQueryTail building every ResultSet with raise_errors left at its
\* default of True instead of the caller's value
ParsedQueryTailDefaultFlag(data, raise_errors) ==
    LET rs == GetResults(data)
    IN  IF \E i \in 1..Len(rs) : ResultSetRaises(rs[i], TRUE)
        THEN Cont("done", Raise("InfluxDBClientError"))
        ELSE Cont("done", Return(ResultSets([i \in 1..Len(rs) |-> ResultSet(rs[i])])))

\* ParsedQueryTail reading data['results'] instead of data.get('results', [])
ParsedQueryTailIndexed(data, raise_errors) ==
    LET rs == data.results
    IN  IF ~data.hasResults
        THEN Cont("done", Raise("KeyError"))
        ELSE IF \E i \in 1..Len(rs) : ResultSetRaises(rs[i], raise_errors)
        THEN Cont("done", Raise("InfluxDBClientError"))
        ELSE Cont("done", Return(ResultSets([i \in 1..Len(rs) |-> ResultSet(rs[i])])))

\* parsedQuery after rawQuery returned `data`
ParsedQueryTail(data, raise_errors) ==
    LET rs == GetResults(data)
    IN  IF \E i \in 1..Len(rs) : ResultSetRaises(rs[i], raise_errors)
        THEN Cont("done", Raise("InfluxDBClientError"))
        ELSE Cont("done", Return(ResultSets([i \in 1..Len(rs) |-> ResultSet(rs[i])])))

\* rawQuery (and parsedQuery above it) once `data` is known
RawQueryTail(o, a, data) ==
    IF o = "rawQuery"
    THEN Cont("done", Return(data))
    ELSE ParsedQueryTail(data, a.raise_errors)

\* what the method that called request does when request returns r
AfterRequest(o, a, r) ==
    CASE o = "request" -> Cont("done", Return(r))
      [] o \in {"write", "write_points"} -> Cont("done", Return(True))
      [] o \in {"rawQuery", "parsedQuery"} ->
            IF r.t = "Response"
            THEN Cont("query_json", Pending)
            ELSE RawQueryTail(o, a, Data(TRUE, << >>))

\* an exception leaving request propagates through every caller frame
AfterRaise(e) == Cont("done", Raise(e))

(* --------------------------- request ----------------------------------- *)
Attempt(h) == [hdr |-> h, res |-> "pending", code |-> 0]

SetLast(s, r, code) ==
    [s EXCEPT ![Len(s)] = [@ EXCEPT !.res = r, !.code = code]]

\* the Deferred of call c fires once: a later result is dropped
Fire(c, o) == IF outcome[c].kind = "pending" THEN o ELSE outcome[c]

\* Classify with the success status hard-coded instead of the argument
ClassifyFixed200(o, a, r) ==
    IF 500 <= r.code /\ r.code < 600
    THEN Cont("server_error_json", Pending)
    ELSE IF r.code = 200
         THEN AfterRequest(o, a, r)
         ELSE Cont("client_error_json", Pending)

\* Classify sending a server-error status back into the retry loop
ClassifyRetry5xx(o, a, r) ==
    IF 500 <= r.code /\ r.code < 600
    THEN Cont("treq", Pending)
    ELSE IF r.code = a.expected
         THEN AfterRequest(o, a, r)
         ELSE Cont("client_error_json", Pending)

\* Classify testing the expected status before the server-error range
ClassifyExpectedFirst(o, a, r) ==
    IF r.code = a.expected
    THEN AfterRequest(o, a, r)
    ELSE IF 500 <= r.code /\ r.code < 600
         THEN Cont("server_error_json", Pending)
         ELSE Cont("client_error_json", Pending)

\* status classification of lines 127-139, up to the next yield
Classify(o, a, r) ==
    IF 500 <= r.code /\ r.code < 600
    THEN Cont("server_error_json", Pending)
    ELSE IF r.code = a.expected
         THEN AfterRequest(o, a, r)
         ELSE Cont("client_error_json", Pending)

\* request is entered by call c: lines 100-113, up to the first yield
\* (range(0, self._retries) with no element leaves `response` unbound at
\* line 127)
EnterRequest(c, o, a) ==
    /\ op' = [op EXCEPT ![c] = o]
    /\ args' = [args EXCEPT ![c] = a]
    /\ IF _retries >= 1
       THEN /\ pc' = [pc EXCEPT ![c] = "treq"]
            /\ attempts' = [attempts EXCEPT ![c] = <<Attempt(_headers')>>]
            /\ outcome' = outcome
       ELSE /\ pc' = [pc EXCEPT ![c] = "done"]
            /\ attempts' = [attempts EXCEPT ![c] = << >>]
            /\ outcome' = [outcome EXCEPT ![c] = Raise("UnboundLocalError")]
    /\ UNCHANGED <<config, _retries, use_udp, response, cancelled>>

\* the attempts made so far by the calls of S
RECURSIVE SumMade(_)
SumMade(S) ==
    IF S = {}
    THEN 0
    ELSE LET d == CHOOSE x \in S : TRUE
         IN  Len(attempts[d]) + SumMade(S \ {d})

\* AfterFailure with one retry counter kept on the client and shared by
\* all the calls in flight
AfterFailureSharedCounter(c, log) ==
    IF Len(log) + SumMade(Calls \ {c}) < _retries
    THEN /\ attempts' = [attempts EXCEPT ![c] = Append(log, Attempt(_headers))]
         /\ pc' = pc
         /\ outcome' = outcome
    ELSE LET k == AfterRequest(op[c], args[c], None)
         IN  /\ attempts' = [attempts EXCEPT ![c] = log]
             /\ pc' = [pc EXCEPT ![c] = k.pc]
             /\ outcome' = [outcome EXCEPT ![c] = Fire(c, k.outcome)]

\* AfterFailure with a retry loop that starts over when it is exhausted
AfterFailureStartsOver(c, log) ==
    /\ attempts' = [attempts EXCEPT ![c] =
                       IF Len(log) < _retries
                       THEN Append(log, Attempt(_headers))
                       ELSE <<Attempt(_headers)>>]
    /\ pc' = pc
    /\ outcome' = outcome

\* AfterFailure with a retry loop that runs once too often
AfterFailureOffByOne(c, log) ==
    IF Len(log) <= _retries
    THEN /\ attempts' = [attempts EXCEPT ![c] = Append(log, Attempt(_headers))]
         /\ pc' = pc
         /\ outcome' = outcome
    ELSE LET k == AfterRequest(op[c], args[c], None)
         IN  /\ attempts' = [attempts EXCEPT ![c] = log]
             /\ pc' = [pc EXCEPT ![c] = k.pc]
             /\ outcome' = [outcome EXCEPT ![c] = Fire(c, k.outcome)]

\* the except branch of the retry loop (lines 123-125) and what follows it:
\* the next iteration, or the end of the loop with response = None
AfterFailure(c, log) ==
    IF Len(log) < _retries
    THEN /\ attempts' = [attempts EXCEPT ![c] = Append(log, Attempt(_headers))]
         /\ pc' = pc
         /\ outcome' = outcome
    ELSE LET k == AfterRequest(op[c], args[c], None)
         IN  /\ attempts' = [attempts EXCEPT ![c] = log]
             /\ pc' = [pc EXCEPT ![c] = k.pc]
             /\ outcome' = [outcome EXCEPT ![c] = Fire(c, k.outcome)]

\* InfluxDBClient.request called directly
request(c, expected) ==
    /\ pc[c] = "idle"
    /\ _headers' = _headers
    /\ EnterRequest(c, "request", [NoArgs EXCEPT !.expected = expected])

\* treq.request fails at transport level
TransportFailure(c) ==
    /\ pc[c] = "treq"
    /\ response' = [response EXCEPT ![c] = None]
    /\ AfterFailure(c, SetLast(attempts[c], "fail", 0))
    /\ UNCHANGED <<config, _retries, _headers, use_udp, op, args, cancelled>>

\* treq.request delivers a response with status `code`
TransportResponse(c, code) ==
    /\ pc[c] = "treq"
    /\ LET r == Response(code, Len(attempts[c]))
           k == Classify(op[c], args[c], r)
       IN  /\ response' = [response EXCEPT ![c] = r]
           /\ attempts' = [attempts EXCEPT ![c] = SetLast(@, "response", code)]
           /\ pc' = [pc EXCEPT ![c] = k.pc]
           /\ outcome' = [outcome EXCEPT ![c] = Fire(c, k.outcome)]
    /\ UNCHANGED <<config, _retries, _headers, use_udp, op, args, cancelled>>

\* response.json() of an error response resolves (lines 129-131, 135-139)
ErrorBody(c, decodable) ==
    LET k == IF decodable
             THEN AfterRequest(op[c], args[c], None)
             ELSE AfterRaise("ValueError")
    IN  /\ response' = [response EXCEPT ![c] = IF decodable THEN None ELSE @]
        /\ pc' = [pc EXCEPT ![c] = k.pc]
        /\ outcome' = [outcome EXCEPT ![c] = Fire(c, k.outcome)]
        /\ UNCHANGED <<config, _retries, _headers, use_udp, op, args, attempts, cancelled>>

ServerErrorBody(c, decodable) ==
    /\ pc[c] = "server_error_json"
    /\ ErrorBody(c, decodable)

ClientErrorBody(c, decodable) ==
    /\ pc[c] = "client_error_json"
    /\ ErrorBody(c, decodable)

(* ------------------------ write / write_points ------------------------- *)
\* a call that ends before its first yield
EndAtOnce(c, o, a, result) ==
    /\ op' = [op EXCEPT ![c] = o]
    /\ args' = [args EXCEPT ![c] = a]
    /\ pc' = [pc EXCEPT ![c] = "done"]
    /\ outcome' = [outcome EXCEPT ![c] = result]
    /\ UNCHANGED <<config, _retries, _headers, use_udp, response, attempts, cancelled>>

\* InfluxDBClient.write: `headers` aliases self._headers, so the assignment
\* of line 160 changes the client's default headers
WriteBody(c, o, a) ==
    /\ _headers' = OCTET
    /\ EnterRequest(c, o, [a EXCEPT !.url = "write", !.method = "POST"])

write(c, expected) ==
    /\ pc[c] = "idle"
    /\ WriteBody(c, "write", [NoArgs EXCEPT !.expected = expected])

ValidPrecisions == {"n", "u", "ms", "s", "m", "h", "None"}

\* `database or self._database`: None and the empty string are falsy
Or(database, default) == IF database \in {"None", ""} THEN default ELSE database

\* WriteParams that always takes the configured database
WriteParamsConfiguredDb(database, time_precision, retention_policy) ==
    [db |-> _database,
     precision |-> IF time_precision # "None" THEN time_precision ELSE Absent,
     rp |-> IF retention_policy # "None" THEN retention_policy ELSE Absent,
     q |-> Absent]

\* the params dict of _write_points (lines 264-272)
WriteParams(database, time_precision, retention_policy) ==
    [db |-> Or(database, _database),
     precision |-> IF time_precision # "None" THEN time_precision ELSE Absent,
     rp |-> IF retention_policy # "None" THEN retention_policy ELSE Absent,
     q |-> Absent]

\* InfluxDBClient._write_points
_write_points(c, a) ==
    IF a.time_precision \notin ValidPrecisions
    THEN EndAtOnce(c, "write_points", a, Raise("ValueError"))
    ELSE IF use_udp /\ a.time_precision # "None" /\ a.time_precision # "s"
    THEN EndAtOnce(c, "write_points", a, Raise("ValueError"))
    ELSE IF use_udp
    THEN \* self.send_packet is not defined on the class
         EndAtOnce(c, "write_points", a, Raise("AttributeError"))
    ELSE WriteBody(c, "write_points",
                   [a EXCEPT !.params = WriteParams(a.database, a.time_precision,
                                                    a.retention_policy)])

\* InfluxDBClient.write_points
write_points(c, time_precision, database, retention_policy, batch_size) ==
    /\ pc[c] = "idle"
    /\ LET a == [NoArgs EXCEPT !.expected = 204,
                               !.time_precision = time_precision,
                               !.database = database,
                               !.retention_policy = retention_policy,
                               !.batch_size = batch_size]
       IN  IF batch_size > 0
           THEN \* line 222 reads the undefined names `iterable` and `size`
                EndAtOnce(c, "write_points", a, Raise("NameError"))
           ELSE _write_points(c, a)

(* ------------------------ rawQuery / parsedQuery ----------------------- *)
\* the params dict of rawQuery (lines 369-376) for a query string q, with
\* database and epoch left at None
QueryParams(q) == [NoParams EXCEPT !.q = q, !.db = Or("None", _database)]

QueryArgs(expected, raise_errors) ==
    [NoArgs EXCEPT !.expected = expected, !.raise_errors = raise_errors,
                   !.url = "query", !.method = "POST",
                   !.params = QueryParams("SELECT")]

rawQuery(c, expected) ==
    /\ pc[c] = "idle"
    /\ _headers' = _headers
    /\ EnterRequest(c, "rawQuery", QueryArgs(expected, TRUE))

parsedQuery(c, expected, raise_errors) ==
    /\ pc[c] = "idle"
    /\ _headers' = _headers
    /\ EnterRequest(c, "parsedQuery", QueryArgs(expected, raise_errors))

\* response.json() of a query response resolves (line 394)
QueryBody(c, body) ==
    /\ pc[c] = "query_json"
    /\ LET k == IF body.t = "undecodable"
                THEN AfterRaise("ValueError")
                ELSE RawQueryTail(op[c], args[c], body)
       IN  /\ pc' = [pc EXCEPT ![c] = k.pc]
           /\ outcome' = [outcome EXCEPT ![c] = Fire(c, k.outcome)]
    /\ UNCHANGED <<config, _retries, _headers, use_udp, op, args, response, attempts,
                   cancelled>>

(* ---------------------- database management ---------------------------- *)
\* The three methods call self.query, which InfluxDBClient does not define:
\* the attribute lookup raises AttributeError before anything is dispatched.
\* create_retention_policy has built its statement by then.
create_database(c) ==
    /\ pc[c] = "idle"
    /\ EndAtOnce(c, "create_database", NoArgs, Raise("AttributeError"))

drop_database(c) ==
    /\ pc[c] = "idle"
    /\ EndAtOnce(c, "drop_database", NoArgs, Raise("AttributeError"))

\* query_string of create_retention_policy (lines 322-329)
RetentionStatement(default) ==
    IF default
    THEN "CREATE RETENTION POLICY DEFAULT"
    ELSE "CREATE RETENTION POLICY"

create_retention_policy(c, default) ==
    /\ pc[c] = "idle"
    /\ EndAtOnce(c, "create_retention_policy",
                 [NoArgs EXCEPT !.statement = RetentionStatement(default)],
                 Raise("AttributeError"))

(* --------------------------- cancellation ------------------------------ *)
\* The caller cancels the Deferred of call c while it is suspended.
\* What inlineCallbacks does then depends on the Twisted release in use:
\*   "propagate": the awaited Deferred is cancelled and CancelledError is
\*                thrown into the generator at its yield;
\*   "detached" : the caller's Deferred fires with CancelledError and the
\*                generator keeps running, its later result being dropped.
Suspended == {"treq", "server_error_json", "client_error_json", "query_json"}

CancelModes == {"propagate", "detached"}

Cancel(c, mode) ==
    /\ pc[c] \in Suspended
    /\ ~cancelled[c]
    /\ cancelled' = [cancelled EXCEPT ![c] = TRUE]
    /\ IF mode = "detached"
       THEN /\ outcome' = [outcome EXCEPT ![c] = Raise("CancelledError")]
            /\ UNCHANGED <<pc, response, attempts>>
       ELSE IF pc[c] = "treq"
       THEN \* the bare except of line 123 catches the CancelledError
            /\ response' = [response EXCEPT ![c] = None]
            /\ AfterFailure(c, SetLast(attempts[c], "cancelled", 0))
       ELSE /\ pc' = [pc EXCEPT ![c] = "done"]
            /\ outcome' = [outcome EXCEPT ![c] = Raise("CancelledError")]
            /\ UNCHANGED <<response, attempts>>
    /\ UNCHANGED <<config, _retries, _headers, use_udp, op, args>>

(* ------------------------------ caller -------------------------------- *)
\* The caller takes the result of call c once its generator has finished;
\* nothing of the call is left behind except what it did to the client.
Collect(c) ==
    /\ pc[c] = "done"
    /\ op' = [op EXCEPT ![c] = "idle"]
    /\ args' = [args EXCEPT ![c] = NoArgs]
    /\ pc' = [pc EXCEPT ![c] = "idle"]
    /\ response' = [response EXCEPT ![c] = None]
    /\ attempts' = [attempts EXCEPT ![c] = << >>]
    /\ outcome' = [outcome EXCEPT ![c] = Pending]
    /\ cancelled' = [cancelled EXCEPT ![c] = FALSE]
    /\ UNCHANGED <<config, _retries, _headers, use_udp>>

\* run_example.py waits for each call before it issues the next one
NoCallInFlight == \A d \in Calls : pc[d] = "idle"

(* ------------------------- specification ------------------------------- *)
\* a caller that issues one call at a time (src/run_example.py)
Next ==
    \E c \in Calls :
        \/ NoCallInFlight /\ \E e \in ExpectedCodes : request(c, e)
        \/ NoCallInFlight /\ \E e \in ExpectedCodes : write(c, e)
        \/ NoCallInFlight /\ \E tp \in TimePrecisions, db \in Databases,
                                rp \in RetentionPolicies, bs \in BatchSizes :
                                write_points(c, tp, db, rp, bs)
        \/ NoCallInFlight /\ create_database(c)
        \/ NoCallInFlight /\ drop_database(c)
        \/ NoCallInFlight /\ \E default \in BOOLEAN : create_retention_policy(c, default)
        \/ NoCallInFlight /\ \E e \in ExpectedCodes : rawQuery(c, e)
        \/ NoCallInFlight /\ \E e \in ExpectedCodes, re \in BOOLEAN :
                                parsedQuery(c, e, re)
        \/ TransportFailure(c)
        \/ \E code \in StatusCodes : TransportResponse(c, code)
        \/ \E ok \in BOOLEAN : ServerErrorBody(c, ok)
        \/ \E ok \in BOOLEAN : ClientErrorBody(c, ok)
        \/ \E body \in QueryBodies : QueryBody(c, body)
        \/ \E mode \in CancelModes : Cancel(c, mode)
        \/ Collect(c)

Spec == Init /\ [][Next]_vars

\* what call c waits for at a yield resolves: the transport attempt with a
\* response or a failure, the decoding of a body with a value or an error
Resolve(c) ==
    \/ TransportFailure(c)
    \/ \E code \in StatusCodes : TransportResponse(c, code)
    \/ \E ok \in BOOLEAN : ServerErrorBody(c, ok)
    \/ \E ok \in BOOLEAN : ClientErrorBody(c, ok)
    \/ \E body \in QueryBodies : QueryBody(c, body)

\* the reactor fires every Deferred a call waits for
SpecFair == Spec /\ \A c \in Calls : WF_vars(Resolve(c))

\* callers that issue calls on the one client while others are in flight;
\* the calls interleave at their yields
ConcurrentCodes == {200, 204, 500}

ConcurrentNext ==
    \E c \in Calls :
        \/ request(c, 200)
        \/ write(c, 204)
        \/ rawQuery(c, 200)
        \/ TransportFailure(c)
        \/ \E code \in ConcurrentCodes : TransportResponse(c, code)
        \/ \E ok \in BOOLEAN : ServerErrorBody(c, ok)
        \/ \E ok \in BOOLEAN : ClientErrorBody(c, ok)
        \/ QueryBody(c, Data(TRUE, << >>))
        \/ Collect(c)

\* a client configured with retries = 2; write_points is not among the
\* concurrent calls, so use_udp is not read
InitConcurrent ==
    /\ Init
    /\ use_udp = FALSE
    /\ config = [retries |-> [present |-> TRUE, n |-> 2], database |-> "None"]

SpecConcurrent == InitConcurrent /\ [][ConcurrentNext]_vars

(* ======================= properties of the client ===================== *)
Made(c) == Len(attempts[c])
Finished(c) == pc[c] = "done"
IsServerError(code) == 500 <= code /\ code < 600
\* the last transport attempt of call c delivered a response
GotResponse(c) ==
    Made(c) >= 1 /\ attempts[c][Made(c)].res = "response"
LastCode(c) == attempts[c][Made(c)].code
HasResponse(log) == \E i \in 1..Len(log) : log[i].res = "response"
\* every attempt of call c failed at transport level
AllFailed(c) ==
    /\ Made(c) = _retries
    /\ \A i \in 1..Made(c) : attempts[c][i].res = "fail"
\* call c is a finished, uncancelled call of one of the methods in ops
FinishedCall(c, ops) == op[c] \in ops /\ Finished(c) /\ ~cancelled[c]

\* the retry loop: at most _retries attempts, and only a failed attempt is
\* followed by another one
RetryLoopBounded(c) ==
    /\ Made(c) <= _retries
    /\ \A i \in 1..(Made(c) - 1) : attempts[c][i].res \in {"fail", "cancelled"}

\* C1 (as stated): one call to request makes at most N attempts, stops at
\* the first attempt that yields a response, and when attempt k yields a
\* response with the expected status the call returns that response.
C1_RetryThenSuccess ==
    \A c \in Calls :
        /\ RetryLoopBounded(c)
        /\ (FinishedCall(c, {"request"}) /\ GotResponse(c)
              /\ LastCode(c) = args[c].expected)
             => outcome[c] = Return(Response(LastCode(c), Made(c)))

\* C1 (amended): as C1, for an expected status that is not a server-error
\* code: at most N attempts, none after the first response, and the
\* response of attempt k with the expected status is what an uncancelled
\* call to request returns.
C1_RetryThenSuccessNon5xx ==
    \A c \in Calls :
        /\ RetryLoopBounded(c)
        /\ (FinishedCall(c, {"request"}) /\ GotResponse(c)
              /\ LastCode(c) = args[c].expected
              /\ ~IsServerError(args[c].expected))
             => outcome[c] = Return(Response(LastCode(c), Made(c)))

\* witness of C1: retries = 3, two failed attempts, the third one answers
\* with the expected status and request has returned
C1_Witness ==
    \E c \in Calls :
        /\ FinishedCall(c, {"request"})
        /\ _retries = 3 /\ Made(c) = 3
        /\ attempts[c][1].res = "fail" /\ attempts[c][2].res = "fail"
        /\ GotResponse(c) /\ LastCode(c) = args[c].expected
        /\ outcome[c] = Return(Response(LastCode(c), 3))

\* C2: for every response with a status in [500,600), request ends with a
\* ServerError raised to the caller.
C2_ServerErrorRaised ==
    \A c \in Calls :
        (FinishedCall(c, {"request"}) /\ GotResponse(c)
           /\ IsServerError(LastCode(c)))
          => outcome[c] = Raise("InfluxDBServerError")

\* C3 (as stated): for every response whose status equals
\* expected_response_code, whatever value the caller passed for it, request
\* returns that raw response.
C3_ExpectedReturned ==
    \A c \in Calls :
        (FinishedCall(c, {"request"}) /\ GotResponse(c)
           /\ LastCode(c) = args[c].expected)
          => (outcome[c].kind = "return"
                /\ outcome[c].value.t = "Response"
                /\ outcome[c].value.code = args[c].expected)

\* C3 (amended): for every response whose status equals
\* expected_response_code, when that code is outside [500,600), an
\* uncancelled call to request returns that raw response with no error.
C3_ExpectedReturnedNon5xx ==
    \A c \in Calls :
        (FinishedCall(c, {"request"}) /\ GotResponse(c)
           /\ LastCode(c) = args[c].expected
           /\ ~IsServerError(args[c].expected))
          => (outcome[c].kind = "return"
                /\ outcome[c].value.t = "Response"
                /\ outcome[c].value.code = args[c].expected)

\* witness of C3: a request expecting 204 got a 204 answer and returned it
C3_Witness ==
    \E c \in Calls :
        /\ FinishedCall(c, {"request"})
        /\ args[c].expected = 204
        /\ GotResponse(c) /\ LastCode(c) = 204
        /\ outcome[c].kind = "return" /\ outcome[c].value.t = "Response"

\* C4: for every response whose status is neither the expected one nor in
\* [500,600), request fails with a ClientError.
C4_ClientErrorRaised ==
    \A c \in Calls :
        (FinishedCall(c, {"request"}) /\ GotResponse(c)
           /\ ~IsServerError(LastCode(c))
           /\ LastCode(c) # args[c].expected)
          => outcome[c] = Raise("InfluxDBClientError")

\* C5: when every configured attempt fails at transport level, request
\* fails with a ConnectionError and does not return normally.
C5_ExhaustionRaised ==
    \A c \in Calls :
        (FinishedCall(c, {"request"}) /\ AllFailed(c))
          => outcome[c].kind = "raise"

\* C6: write and write_points return True only if the write request
\* received a response with the expected status.
C6_WriteTrueOnlyOnSuccess ==
    \A c \in Calls :
        (op[c] \in {"write", "write_points"} /\ outcome[c] = Return(True))
          => (GotResponse(c) /\ LastCode(c) = args[c].expected)

\* the request of call c failed: no response after all attempts, a 5xx
\* status, or a status different from the expected one
RequestFailed(c) ==
    \/ AllFailed(c)
    \/ GotResponse(c) /\ (IsServerError(LastCode(c))
                            \/ LastCode(c) # args[c].expected)

\* C7: rawQuery and parsedQuery end in a failure whenever the query request
\* fails; they never return an empty result instead.
C7_QueryFailureSurfaced ==
    \A c \in Calls :
        (FinishedCall(c, {"rawQuery", "parsedQuery"}) /\ RequestFailed(c))
          => outcome[c].kind = "raise"

\* C8: once the transport has delivered a response in a call, whatever its
\* status, that call makes no further transport attempt.
C8_NoRetryAfterResponse ==
    [][\A c \in Calls :
          HasResponse(attempts[c]) => Len(attempts'[c]) <= Len(attempts[c])]_vars

\* witness of C8: a call whose first attempt was answered with a 5xx status
\* has finished with that single attempt although retries were left
C8_Witness ==
    \E c \in Calls :
        /\ Finished(c) /\ ~cancelled[c]
        /\ Made(c) = 1 /\ _retries >= 2
        /\ GotResponse(c) /\ IsServerError(LastCode(c))

\* C9: the default request headers are unchanged by any sequence of write
\* and query calls: every query request is sent with Content-type
\* application/json.
C9_HeadersImmutable ==
    /\ _headers = JSON
    /\ \A c \in Calls :
          op[c] \in {"rawQuery", "parsedQuery"}
            => \A i \in 1..Made(c) : attempts[c][i].hdr = JSON

\* C10: once a call is cancelled, no further transport attempt is started
\* for it and no response is delivered to it.
C10_CancelStopsRetryLoop ==
    [][\A c \in Calls :
          cancelled'[c] =>
             /\ Len(attempts'[c]) <= Len(attempts[c])
             /\ \A i \in 1..Len(attempts'[c]) :
                   attempts'[c][i].res = "response"
                     => attempts[c][i].res = "response"]_vars


ManagementOps == {"create_database", "drop_database", "create_retention_policy"}

\* C11: each call to create_database, drop_database and
\* create_retention_policy dispatches one query request (a POST to the query
\* endpoint carrying its statement) and does not fail before the server has
\* answered.
C11_ManagementDispatchesQuery ==
    \A c \in Calls :
        (op[c] \in ManagementOps /\ Finished(c))
          => /\ Made(c) >= 1
             /\ args[c].url = "query"
             /\ args[c].params.q # Absent


\* the query response of call c is decoded into body b while the caller of
\* parsedQuery still waits for its result
ParsedQueryDecodes(c, b) ==
    /\ QueryBody(c, b)
    /\ op[c] = "parsedQuery"
    /\ ~cancelled[c]
    /\ b.t = "Data"

HasError(rs) == \E i \in 1..Len(rs) : rs[i] = "error"

\* C12: for a query response whose results entries may contain an error
\* field, parsedQuery with raise_errors true fails when an entry contains an
\* error; with raise_errors false it returns one ResultSet per entry, in
\* order, the erroneous ones carrying their error.
C12_StatementErrors ==
    [][\A c \in Calls : \A b \in QueryBodies :
          (ParsedQueryDecodes(c, b) /\ b.hasResults)
            => IF args[c].raise_errors
               THEN (HasError(b.results)
                       => outcome'[c] = Raise("InfluxDBClientError"))
               ELSE /\ outcome'[c].kind = "return"
                    /\ outcome'[c].value.t = "ResultSets"
                    /\ Len(outcome'[c].value.sets) = Len(b.results)
                    /\ \A i \in 1..Len(b.results) :
                          outcome'[c].value.sets[i].error
                            = (b.results[i] = "error")]_vars

\* witness of C12: parsedQuery with raise_errors false has returned two
\* ResultSets, the first carrying an error and the second none
C12_Witness ==
    \E c \in Calls :
        /\ FinishedCall(c, {"parsedQuery"})
        /\ ~args[c].raise_errors
        /\ outcome[c] = Return(ResultSets(<<[error |-> TRUE], [error |-> FALSE]>>))


\* C13: for every query response with the expected status whose JSON body
\* has an empty or absent results array, parsedQuery returns an empty
\* sequence and never an error.
C13_EmptyResults ==
    [][\A c \in Calls : \A b \in QueryBodies :
          (ParsedQueryDecodes(c, b) /\ (~b.hasResults \/ b.results = << >>))
            => outcome'[c] = Return(ResultSets(<< >>))]_vars

\* witness of C13: a parsedQuery whose request was answered with the
\* expected status has returned the empty sequence
C13_Witness ==
    \E c \in Calls :
        /\ FinishedCall(c, {"parsedQuery"})
        /\ GotResponse(c) /\ LastCode(c) = args[c].expected
        /\ ~IsServerError(LastCode(c))
        /\ outcome[c] = Return(ResultSets(<< >>))


\* C14: with batch_size > 0, write_points dispatches one write request per
\* batch of its (non-empty) list of points and returns True only after the
\* batch writes have completed: a finished call has dispatched at least one
\* write request, and one that returned True got an answer to it.
C14_BatchesWritten ==
    \A c \in Calls :
        (op[c] = "write_points" /\ Finished(c) /\ ~cancelled[c]
           /\ args[c].batch_size > 0
           /\ args[c].time_precision \in ValidPrecisions /\ ~use_udp)
          => /\ Made(c) >= 1
             /\ args[c].url = "write"
             /\ (outcome[c] = Return(True) => GotResponse(c))


\* the methods that enter request as soon as they are called
RequestOps == {"request", "write", "rawQuery", "parsedQuery"}

\* C15: the retry count has a floor of 1 and a default of 3: whatever the
\* configured retries value (0 and negative values included), every call
\* that enters request makes at least one transport attempt, and when
\* retries is not configured no call makes more than 3.
C15_RetryFloorAndDefault ==
    /\ _retries >= 1
    /\ \A c \in Calls : op[c] \in RequestOps => Made(c) >= 1
    /\ ~config.retries.present => \A c \in Calls : Made(c) <= 3

\* witness of C15: with retries configured as 0 or less, a request has made
\* its one attempt, which failed, and has ended
C15_Witness ==
    \E c \in Calls :
        /\ config.retries.present /\ config.retries.n <= 0
        /\ FinishedCall(c, {"request"})
        /\ Made(c) = 1 /\ attempts[c][1].res = "fail"


\* a database argument is given when it is neither None nor the empty string
Given(database) == database # "None" /\ database # ""

\* C16: every HTTP write issued by write_points is a POST to the write
\* endpoint expecting status 204, sent with content-type
\* application/octet-stream, whose params hold db = the database argument if
\* given and else the configured database, precision exactly when
\* time_precision is not None, and rp exactly when retention_policy is not
\* None.
C16_WriteWireFormat ==
    \A c \in Calls :
        (op[c] = "write_points" /\ Made(c) >= 1)
          => /\ args[c].method = "POST"
             /\ args[c].url = "write"
             /\ args[c].expected = 204
             /\ \A i \in 1..Made(c) : attempts[c][i].hdr = OCTET
             /\ args[c].params.db = IF Given(args[c].database)
                                    THEN args[c].database
                                    ELSE config.database
             /\ args[c].params.precision =
                    IF args[c].time_precision = "None"
                    THEN Absent ELSE args[c].time_precision
             /\ args[c].params.rp =
                    IF args[c].retention_policy = "None"
                    THEN Absent ELSE args[c].retention_policy

\* witness of C16: a write_points call with a database argument, a time
\* precision and no retention policy, on a client with a configured
\* database, has had its write answered
C16_Witness ==
    \E c \in Calls :
        /\ op[c] = "write_points" /\ GotResponse(c)
        /\ config.database = "statementStorageDB"
        /\ args[c].database = "mydb" /\ args[c].params.db = "mydb"
        /\ args[c].time_precision = "ms" /\ args[c].params.precision = "ms"
        /\ args[c].retention_policy = "None" /\ args[c].params.rp = Absent


\* C17: in every interleaving of concurrent calls on one client each call
\* counts its own attempts only: it makes at most _retries attempts, it
\* gives up only after _retries failed attempts of its own, and the outcome
\* of a request call is fixed by the results of its own attempts.
C17_IndependentRetries ==
    \A c \in Calls :
        /\ Made(c) <= _retries
        /\ \A i \in 1..(Made(c) - 1) : attempts[c][i].res = "fail"
        /\ (Finished(c) /\ ~GotResponse(c)) => AllFailed(c)
        /\ (Finished(c) /\ op[c] = "request")
             => IF GotResponse(c)
                THEN IF LastCode(c) = args[c].expected
                          /\ ~IsServerError(LastCode(c))
                     THEN outcome[c] = Return(Response(LastCode(c), Made(c)))
                     ELSE outcome[c] \in {Return(None), Raise("ValueError")}
                ELSE outcome[c] = Return(None)

\* witness of C17: one request has ended after _retries failed attempts
\* while another request, after a failure of its own, waits for its second
\* attempt: more attempts have failed on the client than one call may make
C17_Witness ==
    \E c, d \in Calls :
        /\ c # d /\ op[c] = "request" /\ op[d] = "request"
        /\ Finished(c) /\ AllFailed(c)
        /\ pc[d] = "treq" /\ Made(d) = 2 /\ attempts[d][1].res = "fail"


\* what request hands to its caller for an error status whose body decodes
DecodedOutcome(c) == AfterRequest(op[c], args[c], None).outcome

\* C18: for a response with a 5xx or unexpected status the outcome of
\* request is the same whether or not the error body decodes as JSON: it is
\* the outcome of the decodable case.
C18_DecodeFailureSameOutcome ==
    \A c \in Calls :
        (FinishedCall(c, {"request"}) /\ GotResponse(c)
           /\ (IsServerError(LastCode(c)) \/ LastCode(c) # args[c].expected))
          => outcome[c] = DecodedOutcome(c)


\* C19: write_points with a time_precision outside the valid ones fails
\* with ValueError before any request is dispatched: the call has ended
\* with that error and has made no transport attempt.
C19_InvalidPrecisionValueError ==
    \A c \in Calls :
        (op[c] = "write_points"
           /\ args[c].time_precision \notin ValidPrecisions)
          => /\ Finished(c)
             /\ outcome[c] = Raise("ValueError")
             /\ Made(c) = 0


\* C20: every call to request terminates: provided each transport attempt
\* and each body decode resolves, a suspended call reaches its end, after at
\* most _retries attempts.
C20_RequestTerminates ==
    /\ [](\A c \in Calls : Made(c) <= _retries)
    /\ \A c \in Calls : (pc[c] \in Suspended) ~> (pc[c] = "done")

\* witness of C20: a request with retries = 3 has ended after its third
\* attempt failed like the two before
C20_Witness ==
    \E c \in Calls :
        /\ op[c] = "request" /\ Finished(c) /\ ~cancelled[c]
        /\ _retries = 3 /\ AllFailed(c)
        /\ outcome[c].kind # "pending"


\* C21: whatever the transport failures and response statuses, a value
\* other than None that request returns to its caller is the response of
\* the last attempt made, and its status equals expected_response_code and
\* is not in [500,600).
C21_ReturnedResponseIsExpected ==
    \A c \in Calls :
        (op[c] = "request" /\ outcome[c].kind = "return"
           /\ outcome[c].value # None)
          => /\ outcome[c].value.t = "Response"
             /\ GotResponse(c)
             /\ outcome[c].value.attempt = Made(c)
             /\ outcome[c].value.code = LastCode(c)
             /\ outcome[c].value.code = args[c].expected
             /\ ~IsServerError(outcome[c].value.code)

\* witness of C21: a request expecting 200 has returned the 200 response
\* of its second attempt, the first one having failed
C21_Witness ==
    \E c \in Calls :
        /\ op[c] = "request" /\ Finished(c)
        /\ args[c].expected = 200
        /\ Made(c) = 2 /\ attempts[c][1].res = "fail"
        /\ outcome[c] = Return(Response(200, 2))

====
